---------------------------- MODULE Spec2Model ----------------------------
(***************************************************************************)
(* A model of cclint.py: the listing-to-diagnostics pipeline (parse_bytecode,*)
(* get_apis, get_global_refs, get_directives, check) and the command-line   *)
(* entry point (find_luac, main).                                          *)
(*                                                                         *)
(* Text is modelled character by character: a Python str or bytes value is  *)
(* a sequence of one-character strings, so that the regular expressions,    *)
(* the substring tests, int() and str.format() are computed, not assumed.   *)
(* Python's None is the value None below, which is no character sequence.   *)
(***************************************************************************)
EXTENDS Integers, Sequences, FiniteSets, TLC

None == <<"None">>

(***************************************************************************)
(* Character classes of Python's re module on ASCII text.                   *)
(***************************************************************************)
DigitSeq == <<"0", "1", "2", "3", "4", "5", "6", "7", "8", "9">>

Digit == {DigitSeq[i] : i \in 1..Len(DigitSeq)}

Upper ==
  {"A", "B", "C", "D", "E", "F", "G", "H", "I", "J", "K", "L", "M", "N", "O",
   "P", "Q", "R", "S", "T", "U", "V", "W", "X", "Y", "Z"}

Lower ==
  {"a", "b", "c", "d", "e", "f", "g", "h", "i", "j", "k", "l", "m", "n", "o",
   "p", "q", "r", "s", "t", "u", "v", "w", "x", "y", "z"}

\* \w on bytes
WordChar == Upper \cup Lower \cup Digit \cup {"_"}

\* \s on bytes, and what str.strip() removes (the vertical tab is not in the
\* alphabet of the model)
Whitespace == {" ", "\t", "\n", "\r", "\f"}

\* The printable ASCII characters in code-point order (the grave accent, which
\* no string of the model holds, left out): Python compares str values by
\* code point.
Ascii ==
  <<" ", "!", "\"", "#", "$", "%", "&", "'", "(", ")", "*", "+", ",", "-",
    ".", "/", "0", "1", "2", "3", "4", "5", "6", "7", "8", "9", ":", ";",
    "<", "=", ">", "?", "@", "A", "B", "C", "D", "E", "F", "G", "H", "I",
    "J", "K", "L", "M", "N", "O", "P", "Q", "R", "S", "T", "U", "V", "W",
    "X", "Y", "Z", "[", "\\", "]", "^", "_", "a", "b", "c", "d", "e",
    "f", "g", "h", "i", "j", "k", "l", "m", "n", "o", "p", "q", "r", "s",
    "t", "u", "v", "w", "x", "y", "z", "{", "|", "}", "~">>

Ord(c) == CHOOSE i \in 1..Len(Ascii) : Ascii[i] = c

(***************************************************************************)
(* str operations.                                                         *)
(***************************************************************************)
\* s[i:].startswith(p), i counted from 1
StartsAt(s, i, p) ==
  /\ i + Len(p) - 1 <= Len(s)
  /\ \A j \in 1..Len(p) : s[i + j - 1] = p[j]

\* s.startswith(p)
StartsWith(s, p) == StartsAt(s, 1, p)

\* p in s
Contains(s, p) == \E i \in 1..(Len(s) + 1) : StartsAt(s, i, p)

\* The index after the longest run of characters of class C that starts at i.
RECURSIVE RunEnd(_, _, _)
RunEnd(s, i, C) ==
  IF i <= Len(s) /\ s[i] \in C THEN RunEnd(s, i + 1, C) ELSE i

\* The index of the first c at or after i, Len(s) + 1 when there is none.
RECURSIVE Find(_, _, _)
Find(s, i, c) ==
  IF i <= Len(s) /\ s[i] # c THEN Find(s, i + 1, c) ELSE i

\* s.split(c) for a one-character separator
RECURSIVE SplitFrom(_, _, _)
SplitFrom(s, c, i) ==
  LET e == Find(s, i, c)
  IN  IF e > Len(s)
      THEN <<SubSeq(s, i, Len(s))>>
      ELSE <<SubSeq(s, i, e - 1)>> \o SplitFrom(s, c, e + 1)

split(s, c) == SplitFrom(s, c, 1)

\* s.rstrip(chars)
RECURSIVE rstrip(_, _)
rstrip(s, C) ==
  IF Len(s) > 0 /\ s[Len(s)] \in C THEN rstrip(SubSeq(s, 1, Len(s) - 1), C) ELSE s

\* s.strip()
strip(s) ==
  LET r == rstrip(s, Whitespace)
  IN  SubSeq(r, RunEnd(r, 1, Whitespace), Len(r))

\* s.count(c)
count(s, c) == Cardinality({i \in 1..Len(s) : s[i] = c})

\* int(s) of a run of decimal digits
RECURSIVE int(_)
int(s) ==
  IF Len(s) = 0 THEN 0
  ELSE 10 * int(SubSeq(s, 1, Len(s) - 1))
         + ((CHOOSE i \in 1..Len(DigitSeq) : DigitSeq[i] = s[Len(s)]) - 1)

\* str(n) of a natural number
RECURSIVE str(_)
str(n) ==
  IF n < 10 THEN <<DigitSeq[n + 1]>>
  ELSE str(n \div 10) \o <<DigitSeq[(n % 10) + 1]>>

\* x in lst, for a list or tuple
In(x, lst) == \E i \in 1..Len(lst) : lst[i] = x

\* "sep".join(parts)
RECURSIVE join(_, _)
join(sep, parts) ==
  IF Len(parts) = 0 THEN <<>>
  ELSE IF Len(parts) = 1 THEN parts[1]
  ELSE parts[1] \o sep \o join(sep, Tail(parts))

\* The concatenation of a list of lists
RECURSIVE Flatten(_)
Flatten(ss) == IF Len(ss) = 0 THEN <<>> ELSE Head(ss) \o Flatten(Tail(ss))

(***************************************************************************)
(* The registries, cclint.py lines 11-26.                                   *)
(***************************************************************************)
lua51_builtins ==
  << <<"_","G">>,
     <<"_","V","E","R","S","I","O","N">>,
     <<"L","U","A","_","P","A","T","H">>,
     <<"a","s","s","e","r","t">>,
     <<"c","o","l","l","e","c","t","g","a","r","b","a","g","e">>,
     <<"c","o","r","o","u","t","i","n","e">>,
     <<"d","e","b","u","g">>,
     <<"d","o","f","i","l","e">>,
     <<"e","r","r","o","r">>,
     <<"g","c","i","n","f","o">>,
     <<"g","e","t","f","e","n","v">>,
     <<"g","e","t","m","e","t","a","t","a","b","l","e">>,
     <<"i","o">>,
     <<"i","p","a","i","r","s">>,
     <<"l","o","a","d">>,
     <<"l","o","a","d","f","i","l","e">>,
     <<"l","o","a","d","s","t","r","i","n","g">>,
     <<"m","a","t","h">>,
     <<"m","o","d","u","l","e">>,
     <<"n","e","w","p","r","o","x","y">>,
     <<"n","e","x","t">>,
     <<"o","s">>,
     <<"p","a","c","k","a","g","e">>,
     <<"p","a","i","r","s">>,
     <<"p","c","a","l","l">>,
     <<"p","r","i","n","t">>,
     <<"r","a","w","e","q","u","a","l">>,
     <<"r","a","w","g","e","t">>,
     <<"r","a","w","s","e","t">>,
     <<"r","e","q","u","i","r","e">>,
     <<"s","e","l","e","c","t">>,
     <<"s","e","t","f","e","n","v">>,
     <<"s","e","t","m","e","t","a","t","a","b","l","e">>,
     <<"s","t","r","i","n","g">>,
     <<"t","a","b","l","e">>,
     <<"t","o","n","u","m","b","e","r">>,
     <<"t","o","s","t","r","i","n","g">>,
     <<"t","y","p","e">>,
     <<"u","n","p","a","c","k">>,
     <<"x","p","c","a","l","l">> >>

cc_builtins ==
  << <<"c","o","l","o","r","s">>,
     <<"c","o","l","o","u","r","s">>,
     <<"d","i","s","k">>,
     <<"f","s">>,
     <<"g","p","s">>,
     <<"h","e","l","p">>,
     <<"i","o">>,
     <<"k","e","y","s">>,
     <<"p","a","i","n","t","u","t","i","l","s">>,
     <<"p","a","r","a","l","l","e","l">>,
     <<"p","e","r","i","p","h","e","r","a","l">>,
     <<"r","e","d","n","e","t">>,
     <<"r","e","d","s","t","o","n","e">>,
     <<"s","h","e","l","l">>,
     <<"t","e","r","m">>,
     <<"t","e","x","t","u","t","i","l","s">>,
     <<"t","u","r","t","l","e">>,
     <<"v","e","c","t","o","r">> >>

(***************************************************************************)
(* The words the code compares with.                                       *)
(***************************************************************************)
kMain == <<"m", "a", "i", "n">>
kFunction == <<"f", "u", "n", "c", "t", "i", "o", "n">>
kGet == <<"g", "e", "t">>
kSet == <<"s", "e", "t">>
kGETGLOBAL == <<"G", "E", "T", "G", "L", "O", "B", "A", "L">>
kSETGLOBAL == <<"S", "E", "T", "G", "L", "O", "B", "A", "L">>
kGETTABLE == <<"G", "E", "T", "T", "A", "B", "L", "E">>
kLOADK == <<"L", "O", "A", "D", "K">>
kCALL == <<"C", "A", "L", "L">>
kRETURN == <<"R", "E", "T", "U", "R", "N">>
kOs == <<"o", "s">>
kBapil == <<"b", "a", "p", "i", "l">>
kLoadAPI == <<"\"", "l", "o", "a", "d", "A", "P", "I", "\"">>
kUnderscore == <<"_">>

(***************************************************************************)
(* instruction_regex, lines 64-65: a tab, the instruction index (digits), a  *)
(* tab, the source line (digits) in square brackets, a tab, the mnemonic     *)
(* (capitals), one or more blanks or tabs, any operand characters (digits,   *)
(* blanks, minus signs) and then either the end of the line or a tab, a      *)
(* semicolon, a blank and the annotation, which runs to the end of the line. *)
(* The result is <<>> when the line does not match, and one record of the    *)
(* groups (line, name, info) when it does; tails is the set of places where  *)
(* the operand run may end, which holds at most one place.                  *)
(***************************************************************************)
instruction_regex(l) ==
  LET n == Len(l)
      a == RunEnd(l, 2, Digit)
      b == RunEnd(l, a + 2, Digit)
      c == RunEnd(l, b + 2, Upper)
      w == RunEnd(l, c, {" ", "\t"})
      tails ==
        {m \in (c + 1)..(n + 1) :
           /\ \E k \in (c + 1)..w :
                /\ k <= m
                /\ \A j \in k..(m - 1) : l[j] \in Digit \cup {" ", "-"}
           /\ \/ m = n + 1
              \/ StartsAt(l, m, <<"\t", ";", " ">>)}
  IN  IF /\ StartsWith(l, <<"\t">>)
         /\ a > 2
         /\ StartsAt(l, a, <<"\t", "[">>)
         /\ b > a + 2
         /\ StartsAt(l, b, <<"]", "\t">>)
         /\ c > b + 2
         /\ tails # {}
      THEN LET m == CHOOSE t \in tails : TRUE
           IN  <<[line |-> SubSeq(l, a + 2, b - 1),
                  name |-> SubSeq(l, b + 2, c - 1),
                  info |-> IF m = n + 1 THEN None ELSE SubSeq(l, m + 3, n)]>>
      ELSE <<>>

(***************************************************************************)
(* parse_bytecode, lines 68-93.  An instruction is the tuple                *)
(* <<chunk, line, name, info>>; chunk starts as None.                       *)
(***************************************************************************)
RECURSIVE parse_lines(_, _, _)
parse_lines(lines, k, chunk) ==
  IF k > Len(lines) THEN <<>>
  ELSE LET line == rstrip(lines[k], {"\r"})
           match == instruction_regex(line)
       IN  IF StartsWith(line, <<"m", "a", "i", "n", " ", "<">>)
           THEN parse_lines(lines, k + 1, kMain)
           ELSE IF StartsWith(line, <<"f", "u", "n", "c", "t", "i", "o", "n", " ", "<">>)
           THEN parse_lines(lines, k + 1, kFunction)
           ELSE IF match # <<>>
           THEN <<<<chunk, int(match[1].line), match[1].name, match[1].info>>>>
                  \o parse_lines(lines, k + 1, chunk)
           ELSE parse_lines(lines, k + 1, chunk)

parse_bytecode(listing) == parse_lines(split(listing, "\n"), 1, None)

(***************************************************************************)
(* The expression of line 114 on an annotation: a double quote, a lazy run   *)
(* of any characters, the group api (one or more characters other than "/"), *)
(* a double quote, the end.  <<>> when it does not match, <<api>> when it    *)
(* does.  The lazy prefix is as short as the rest allows, so api starts      *)
(* right after the last "/" (or after the opening quote) and runs to the     *)
(* closing quote.                                                          *)
(***************************************************************************)
\* A variant that takes the whole path for the module's name.
api_regex_whole_path(info) ==
  IF Len(info) >= 3 /\ info[1] = "\"" /\ info[Len(info)] = "\""
  THEN <<SubSeq(info, 2, Len(info) - 1)>>
  ELSE <<>>

api_regex(info) ==
  LET n == Len(info)
      starts ==
        {p \in 2..(n - 1) : \A j \in p..(n - 1) : info[j] # "/"}
  IN  IF n >= 3 /\ info[1] = "\"" /\ info[n] = "\"" /\ starts # {}
      THEN <<SubSeq(info, CHOOSE p \in starts : \A q \in starts : p <= q, n - 1)>>
      ELSE <<>>

(***************************************************************************)
(* get_apis, lines 96-122.  i counts from 1 here and from 0 in the code.    *)
(* The result is [raised, value]: raised is "" when the function returns     *)
(* value, and the name of the exception when an index past the end of the    *)
(* list (IndexError) or a match against None (TypeError) raises.            *)
(***************************************************************************)
RECURSIVE get_apis_from(_, _, _)
get_apis_from(instructions, i, apis) ==
  LET n == Len(instructions)
      name(k) == instructions[k][3]
      info(k) == instructions[k][4]
      next == get_apis_from(instructions, i + 1, apis)
      IndexError == [raised |-> "IndexError", value |-> apis]
  IN  IF i > n THEN [raised |-> "", value |-> apis]
      ELSE IF ~(name(i) = kGETGLOBAL /\ info(i) \in {kOs, kBapil}) THEN next
      ELSE IF i + 1 > n THEN IndexError
      ELSE IF ~(name(i + 1) = kGETTABLE /\ info(i + 1) = kLoadAPI) THEN next
      ELSE IF i + 2 > n THEN IndexError
      ELSE IF name(i + 2) # kLOADK THEN next
      ELSE IF i + 3 > n THEN IndexError
      ELSE IF name(i + 3) # kCALL THEN next
      ELSE IF info(i + 2) = None THEN [raised |-> "TypeError", value |-> apis]
      ELSE LET match == api_regex(info(i + 2))
           IN  IF match # <<>>
               THEN get_apis_from(instructions, i + 4, Append(apis, match[1]))
               ELSE next

get_apis(instructions) == get_apis_from(instructions, 1, <<>>)

(***************************************************************************)
(* get_global_refs, lines 125-135.  A reference is <<action, line, name,    *)
(* chunk>>.                                                                *)
(***************************************************************************)
RECURSIVE get_global_refs(_)
get_global_refs(instructions) ==
  IF Len(instructions) = 0 THEN <<>>
  ELSE LET ins == Head(instructions)
           rest == get_global_refs(Tail(instructions))
       IN  IF ins[3] = kGETGLOBAL THEN <<<<kGet, ins[2], ins[4], ins[1]>>>> \o rest
           ELSE IF ins[3] = kSETGLOBAL THEN <<<<kSet, ins[2], ins[4], ins[1]>>>> \o rest
           ELSE rest

(***************************************************************************)
(* get_directives, lines 138-168.  The three list markers are followed by    *)
(* the group: a word, then any number of (comma, optional whitespace, word). *)
(***************************************************************************)
kIgnoreGlobal ==
  <<"l", "i", "n", "t", "-", "i", "g", "n", "o", "r", "e", "-", "g", "l", "o",
    "b", "a", "l", ":", " ">>
kIgnoreGlobalGet ==
  <<"l", "i", "n", "t", "-", "i", "g", "n", "o", "r", "e", "-", "g", "l", "o",
    "b", "a", "l", "-", "g", "e", "t", ":", " ">>
kIgnoreGlobalSet ==
  <<"l", "i", "n", "t", "-", "i", "g", "n", "o", "r", "e", "-", "g", "l", "o",
    "b", "a", "l", "-", "s", "e", "t", ":", " ">>
kSetGlobalsInMain ==
  <<"l", "i", "n", "t", "-", "s", "e", "t", "-", "g", "l", "o", "b", "a", "l",
    "s", "-", "i", "n", "-", "m", "a", "i", "n", "-", "c", "h", "u", "n", "k">>
kCheckGlobalsCached ==
  <<"l", "i", "n", "t", "-", "c", "h", "e", "c", "k", "-", "g", "l", "o", "b",
    "a", "l", "s", "-", "c", "a", "c", "h", "e", "d">>

\* The index after the group that starts with the word at p: the words are
\* taken greedily, and a comma that no word follows ends the group before it.
RECURSIVE list_end(_, _)
list_end(s, p) ==
  LET e == RunEnd(s, p, WordChar)
      q == RunEnd(s, e + 1, Whitespace)
  IN  IF e <= Len(s) /\ s[e] = "," /\ RunEnd(s, q, WordChar) > q
      THEN list_end(s, q)
      ELSE e

\* [match.group(1) for match in re.finditer(marker + group, source)], scanning
\* from index i: the matches do not overlap, and a marker that no word follows
\* is no match.
RECURSIVE finditer(_, _, _)
finditer(marker, source, i) ==
  IF i > Len(source) THEN <<>>
  ELSE LET p == i + Len(marker)
       IN  IF StartsAt(source, i, marker) /\ RunEnd(source, p, WordChar) > p
           THEN <<SubSeq(source, p, list_end(source, p) - 1)>>
                  \o finditer(marker, source, list_end(source, p))
           ELSE finditer(marker, source, i + 1)

\* The names of the matches of one marker, in order: each group is split at
\* the commas and each part stripped (lines 143-146).
directive_names(marker, source) ==
  LET groups == finditer(marker, source, 1)
      names(g) == LET parts == split(g, ",")
                  IN  [j \in 1..Len(parts) |-> strip(parts[j])]
  IN  Flatten([k \in 1..Len(groups) |-> names(groups[k])])

get_directives(source) ==
  LET both == directive_names(kIgnoreGlobal, source)
  IN  [ignore_global_get |-> both \o directive_names(kIgnoreGlobalGet, source),
       ignore_global_set |-> both \o directive_names(kIgnoreGlobalSet, source),
       set_globals_in_main |-> Contains(source, kSetGlobalsInMain),
       cache_globals |-> Contains(source, kCheckGlobalsCached)]

(***************************************************************************)
(* The expression of line 186 on one line of the compiler's error text: a     *)
(* lazy non-empty run, a colon, a lazy non-empty run, a colon, the group line *)
(* (digits), a colon and a blank, the group message (non-empty, to the end).  *)
(* <<>> when the line does not match, one record of the groups when it does.  *)
(* The lazy runs make the first colon pair that works the one that is taken.  *)
(***************************************************************************)
error_regex(s) ==
  LET n == Len(s)
      d(b) == RunEnd(s, b + 1, Digit)
      ok(a, b) ==
        /\ s[a] = ":"
        /\ s[b] = ":"
        /\ d(b) > b + 1
        /\ StartsAt(s, d(b), <<":", " ">>)
        /\ d(b) + 2 <= n
      pairs == {ab \in (2..n) \X (4..n) : ab[2] >= ab[1] + 2 /\ ok(ab[1], ab[2])}
  IN  IF pairs = {} THEN <<>>
      ELSE LET ab == CHOOSE x \in pairs :
                       \A y \in pairs :
                         \/ x[1] < y[1]
                         \/ x[1] = y[1] /\ x[2] <= y[2]
               b == ab[2]
           IN  <<[line |-> SubSeq(s, b + 1, d(b) - 1),
                  message |-> SubSeq(s, d(b) + 2, n)]>>

(***************************************************************************)
(* check.add_message, lines 172-180.  line_mask is "{:Nd}" with N the number *)
(* of digits of the source's newline count; "{:Nd}".format(n) is str(n) with  *)
(* blanks put before it up to the width N, and str(n) as it is when it is     *)
(* longer.                                                                 *)
(***************************************************************************)
line_mask_width(source) == Len(str(count(source, "\n")))

\* A variant without the padding.
format_d_unpadded(width, n) == str(n)

format_d(width, n) ==
  LET digits == str(n)
  IN  [i \in 1..(width - Len(digits)) |-> " "] \o digits

format_message(source, type, line, message) ==
  type \o <<":">> \o format_d(line_mask_width(source), line) \o <<":", " ">> \o message

\* "global {} of '{}'".format(action, name), line 240
warning_text(action, name) ==
  <<"g", "l", "o", "b", "a", "l", " ">> \o action \o <<" ", "o", "f", " ", "'">>
    \o name \o <<"'">>

(***************************************************************************)
(* warnings.sort(), line 237: the list holds the tuples <<line, action,      *)
(* name>>, and Python orders tuples item by item, str items by code point.   *)
(***************************************************************************)
RECURSIVE str_less(_, _)
str_less(s, t) ==
  IF Len(t) = 0 THEN FALSE
  ELSE IF Len(s) = 0 THEN TRUE
  ELSE IF s[1] # t[1] THEN Ord(s[1]) < Ord(t[1])
  ELSE str_less(Tail(s), Tail(t))

tuple_less(u, v) ==
  \/ u[1] < v[1]
  \/ u[1] = v[1] /\ str_less(u[2], v[2])
  \/ u[1] = v[1] /\ u[2] = v[2] /\ str_less(u[3], v[3])

\* One item put into a sorted list after the items that are not greater.
RECURSIVE insert_sorted(_, _)
insert_sorted(lst, v) ==
  IF Len(lst) = 0 THEN <<v>>
  ELSE IF tuple_less(v, Head(lst)) THEN <<v>> \o lst
  ELSE <<Head(lst)>> \o insert_sorted(Tail(lst), v)

RECURSIVE sorted_from(_, _, _)
sorted_from(lst, k, acc) ==
  IF k > Len(lst) THEN acc ELSE sorted_from(lst, k + 1, insert_sorted(acc, lst[k]))

\* A variant that orders by the line alone and keeps the order of the items
\* of one line.
RECURSIVE insert_by_line(_, _)
insert_by_line(lst, v) ==
  IF Len(lst) = 0 THEN <<v>>
  ELSE IF v[1] < Head(lst)[1] THEN <<v>> \o lst
  ELSE <<Head(lst)>> \o insert_by_line(Tail(lst), v)

RECURSIVE sort_by_line_from(_, _, _)
sort_by_line_from(lst, k, acc) ==
  IF k > Len(lst) THEN acc ELSE sort_by_line_from(lst, k + 1, insert_by_line(acc, lst[k]))

sort_by_line(lst) == sort_by_line_from(lst, 1, <<>>)

sort(lst) == sorted_from(lst, 1, <<>>)

(***************************************************************************)
(* check, lines 171-242, as a function of the source and of the compiler's   *)
(* answer to it (get_bytecode_listing, line 182).  The result holds what the  *)
(* function returns (messages), the exception it raises if any (raised), and  *)
(* its locals as they stand at the return.                                  *)
(***************************************************************************)
\* lines 184-192
error_messages(source, errors) ==
  LET lines == split(errors, "\n")
      one(k) == LET match == error_regex(rstrip(lines[k], {"\r"}))
                IN  IF match # <<>>
                    THEN <<format_message(source, <<"E">>, int(match[1].line),
                                          match[1].message)>>
                    ELSE <<>>
  IN  Flatten([k \in 1..Len(lines) |-> one(k)])

\* A variant that takes the writes of every chunk.
RECURSIVE all_chunk_sets(_)
all_chunk_sets(global_refs) ==
  IF Len(global_refs) = 0 THEN <<>>
  ELSE IF Head(global_refs)[1] # kSet THEN all_chunk_sets(Tail(global_refs))
  ELSE <<Head(global_refs)[3]>> \o all_chunk_sets(Tail(global_refs))

\* lines 206-212: the names the main chunk sets, in listing order
RECURSIVE main_chunk_sets(_)
main_chunk_sets(global_refs) ==
  IF Len(global_refs) = 0 THEN <<>>
  ELSE LET ref == Head(global_refs)
       IN  IF ref[1] # kSet \/ ref[4] # kMain
           THEN main_chunk_sets(Tail(global_refs))
           ELSE <<ref[3]>> \o main_chunk_sets(Tail(global_refs))

\* A variant that skips every read of a declared global, whatever
\* cache_globals is.
is_warned_uncached(ref, ignore_global_get, ignore_global_set, declared_globals, cache_globals) ==
  IF ref[1] = kGet
  THEN ~In(ref[3], ignore_global_get) /\ ~In(ref[3], declared_globals)
  ELSE ref[3] # kUnderscore /\ ~In(ref[3], ignore_global_set)

\* A variant that consults the declared globals for a write as well.
is_warned_declared_sets(ref, ignore_global_get, ignore_global_set, declared_globals, cache_globals) ==
  IF ref[1] = kGet
  THEN /\ ~In(ref[3], ignore_global_get)
       /\ ~(In(ref[3], declared_globals) /\ (~cache_globals \/ ref[4] = kMain))
  ELSE /\ ref[3] # kUnderscore
       /\ ~In(ref[3], ignore_global_set)
       /\ ~In(ref[3], declared_globals)

\* lines 217-233: whether the loop body reaches line 235 for one reference
is_warned(ref, ignore_global_get, ignore_global_set, declared_globals, cache_globals) ==
  LET action == ref[1]
      name == ref[3]
      chunk == ref[4]
  IN  IF action = kGet
      THEN /\ ~In(name, ignore_global_get)
           /\ ~(In(name, declared_globals) /\ (~cache_globals \/ chunk = kMain))
      ELSE IF action = kSet
      THEN name # kUnderscore /\ ~In(name, ignore_global_set)
      ELSE TRUE

\* lines 214-235
RECURSIVE collect_warnings(_, _, _, _, _)
collect_warnings(global_refs, ignore_global_get, ignore_global_set, declared_globals, cache_globals) ==
  IF Len(global_refs) = 0 THEN <<>>
  ELSE LET ref == Head(global_refs)
           rest == collect_warnings(Tail(global_refs), ignore_global_get,
                                    ignore_global_set, declared_globals, cache_globals)
       IN  IF is_warned(ref, ignore_global_get, ignore_global_set, declared_globals,
                        cache_globals)
           THEN <<<<ref[2], ref[1], ref[3]>>>> \o rest
           ELSE rest

NoLocals ==
  [instructions |-> <<>>, apis |-> <<>>, global_refs |-> <<>>,
   declared_globals |-> <<>>, ignore_global_get |-> <<>>, ignore_global_set |-> <<>>,
   set_globals_in_main |-> FALSE, cache_globals |-> FALSE,
   emitted |-> <<>>, warnings |-> <<>>]

\* lines 194-242: the analysis of a source that compiled
analyse(source, listing) ==
  LET instructions == parse_bytecode(listing)
      apis == get_apis(instructions)
      global_refs == get_global_refs(instructions)
      declared_globals == lua51_builtins \o cc_builtins \o apis.value
      directives == get_directives(source)
      added == IF directives.set_globals_in_main
               THEN main_chunk_sets(global_refs) ELSE <<>>
      ignore_global_get == directives.ignore_global_get \o added
      ignore_global_set == directives.ignore_global_set \o added
      emitted == collect_warnings(global_refs, ignore_global_get, ignore_global_set,
                                  declared_globals, directives.cache_globals)
      warnings == sort(emitted)
  IN  IF apis.raised # ""
      THEN [raised |-> apis.raised, messages |-> <<>>,
            locals |-> [NoLocals EXCEPT !.instructions = instructions]]
      ELSE [raised |-> "",
            messages |->
              [k \in 1..Len(warnings) |->
                 format_message(source, <<"W">>, warnings[k][1],
                                warning_text(warnings[k][2], warnings[k][3]))],
            locals |->
              [instructions |-> instructions, apis |-> apis.value,
               global_refs |-> global_refs, declared_globals |-> declared_globals,
               ignore_global_get |-> ignore_global_get,
               ignore_global_set |-> ignore_global_set,
               set_globals_in_main |-> directives.set_globals_in_main,
               cache_globals |-> directives.cache_globals,
               emitted |-> emitted, warnings |-> warnings]]

\* A variant without the return of line 192: the analysis follows the errors.
check_without_return(source, listing, errors) ==
  [analyse(source, listing) EXCEPT
     !.messages = error_messages(source, errors) \o @]

check(source, listing, errors) ==
  IF errors # <<>>
  THEN [raised |-> "", messages |-> error_messages(source, errors), locals |-> NoLocals]
  ELSE analyse(source, listing)

(***************************************************************************)
(* find_luac, lines 32-49, as a function of the environment: LUAC51 is the   *)
(* variable's value (None when unset), os_name is os.name, which is what     *)
(* shutil.which("luac5.1") returns (None when the search path holds no such  *)
(* program) and executable is the set of paths for which os.access(path,     *)
(* os.X_OK) is true.  os.access(None, os.X_OK) raises TypeError.             *)
(***************************************************************************)
kLocalExe == <<"l", "u", "a", "c", "5", ".", "1", ".", "e", "x", "e">>

find_luac(env) ==
  IF env.LUAC51 # None /\ env.LUAC51 # <<>>
  THEN [LUAC |-> env.LUAC51, raised |-> "", value |-> env.LUAC51 \in env.executable]
  ELSE IF env.os_name = "nt" /\ kLocalExe \in env.executable
  THEN [LUAC |-> kLocalExe, raised |-> "", value |-> TRUE]
  ELSE IF env.which = None
  THEN [LUAC |-> None, raised |-> "TypeError", value |-> FALSE]
  ELSE [LUAC |-> env.which, raised |-> "", value |-> env.which \in env.executable]

kNotFound ==
  <<"e", "r", "r", "o", "r", ":", " ", "l", "u", "a", "c", "5", ".", "1", " ",
    "n", "o", "t", " ", "f", "o", "u", "n", "d">>

(***************************************************************************)
(* The state.  pc is the place of the run: in main (find_luac, setup_error,  *)
(* read, check, print, done), or at the call of one function taken alone      *)
(* (parse_bytecode, get_apis) and after it (returned); raised when an         *)
(* exception left the code.                                                 *)
(*   env       the environment find_luac reads                              *)
(*   LUAC      the module's global                                          *)
(*   argv, stdin, file   the command line, the bytes on standard input and  *)
(*             the bytes of the file argv[1] names                          *)
(*   luac_out  what the compiler answers, <<listing, errors>>, for each       *)
(*             source it may be given (get_bytecode_listing, lines 52-61)    *)
(*   source    the source as read (None before)                             *)
(*   arg       the argument of the function taken alone                     *)
(*   ret       what the function called last returned                       *)
(*   stdout    the lines printed                                            *)
(*   returned  <<>> until main returns, then <<its return value>>            *)
(*   raised    the exception that left the code, "" when none did            *)
(***************************************************************************)
VARIABLES pc, env, LUAC, argv, stdin, file, luac_out, source, arg, ret, stdout,
          returned, raised

vars == <<pc, env, LUAC, argv, stdin, file, luac_out, source, arg, ret, stdout,
          returned, raised>>

(***************************************************************************)
(* The compiler's listing, as luac -l prints it: for each function a header   *)
(* line ("main <...>" or "function <...>") and a line of counts, then one     *)
(* line per instruction; a blank line before each nested function.  Every     *)
(* function's code ends with a RETURN instruction.                          *)
(***************************************************************************)
kMainHeader ==
  <<"m", "a", "i", "n", " ", "<", "s", "t", "d", "i", "n", ":", "0", ",", "0", ">">>
kFunctionHeader ==
  <<"f", "u", "n", "c", "t", "i", "o", "n", " ", "<", "s", "t", "d", "i", "n",
    ":", "1", ",", "2", ">">>
kCounts == <<"0", "+", " ", "p", "a", "r", "a", "m", "s">>

\* One instruction line: the mnemonic is printed left-justified in nine
\* columns.
InstructionLine(index, line, name, info) ==
  <<"\t">> \o str(index) \o <<"\t", "[">> \o str(line) \o <<"]", "\t">>
    \o name \o [i \in 1..(9 - Len(name)) |-> " "] \o <<"\t", "0", " ", "-", "1">>
    \o (IF info = None THEN <<>> ELSE <<"\t", ";", " ">> \o info)

\* A block is a list of instructions <<line, name, info>>; FunctionBlock is
\* no instruction but the end of the current function and the start of the
\* next.
FunctionBlock == <<<<0, kFunction, None>>>>

RECURSIVE BlockLines(_, _)
BlockLines(blocks, index) ==
  IF Len(blocks) = 0 THEN <<InstructionLine(index, 1, kRETURN, None)>>
  ELSE IF Head(blocks) = FunctionBlock
  THEN <<InstructionLine(index, 1, kRETURN, None), <<>>, kFunctionHeader, kCounts>>
         \o BlockLines(Tail(blocks), 1)
  ELSE [k \in 1..Len(Head(blocks)) |->
          InstructionLine(index + k - 1, Head(blocks)[k][1], Head(blocks)[k][2],
                          Head(blocks)[k][3])]
         \o BlockLines(Tail(blocks), index + Len(Head(blocks)))

Listing(blocks) ==
  join(<<"\n">>, <<kMainHeader, kCounts>> \o BlockLines(blocks, 1)) \o <<"\n">>

\* The sequences of at most n items of the set S
RECURSIVE SeqsUpTo(_, _)
SeqsUpTo(S, n) ==
  IF n = 0 THEN {<<>>}
  ELSE LET shorter == SeqsUpTo(S, n - 1)
       IN  shorter \cup {Append(q, e) : q \in {t \in shorter : Len(t) = n - 1}, e \in S}

(***************************************************************************)
(* The inputs.                                                             *)
(***************************************************************************)
MaxRefBlocks == 3
MaxApiBlocks == 3
MaxErrorLines == 2
MaxListingLines == 3
MaxInstructions == 5

kX == <<"x">>
kM == <<"m">>
kPrint == <<"p", "r", "i", "n", "t">>
kFs == <<"f", "s">>
kPathM == <<"\"", "r", "o", "m", "/", "a", "p", "i", "s", "/", "m", "\"">>
kPathSlash == <<"\"", "m", "/", "\"">>
kTime == <<"\"", "t", "i", "m", "e", "\"">>

\* Sources: lines of Lua with the directives in comments.
SrcPlain == <<"x", "(", ")", "\n">>
SrcCached == <<"-", "-", " ">> \o kCheckGlobalsCached \o <<"\n">>
SrcInMain == <<"-", "-", " ">> \o kSetGlobalsInMain \o <<"\n">>
SrcIgnoreX == <<"-", "-", " ">> \o kIgnoreGlobal \o kX \o <<"\n">>
SrcIgnoreGetPrint == <<"-", "-", " ">> \o kIgnoreGlobalGet \o kPrint \o <<"\n">>
SrcIgnoreSetPrintX ==
  <<"-", "-", " ">> \o kIgnoreGlobalSet \o kPrint \o <<",", " ">> \o kX \o <<"\n">>
SrcTenLines == [i \in 1..10 |-> "\n"]

RefSources ==
  {SrcPlain, SrcCached, SrcInMain, SrcCached \o SrcInMain, SrcIgnoreX,
   SrcIgnoreGetPrint \o SrcCached, SrcIgnoreSetPrintX, SrcInMain \o SrcIgnoreSetPrintX}

\* Blocks of one global read or write
RefBlocks ==
  {<<<<1, kGETGLOBAL, kPrint>>>>, <<<<2, kSETGLOBAL, kPrint>>>>,
   <<<<1, kGETGLOBAL, kX>>>>, <<<<1, kSETGLOBAL, kX>>>>,
   <<<<1, kSETGLOBAL, kUnderscore>>>>, <<<<2, kGETGLOBAL, kFs>>>>, FunctionBlock}

\* Blocks around the module-load idiom: the idiom itself for the loaders os
\* and bapil, os.time(), the idiom with a path that ends in "/", reads of the
\* module's name and of an undeclared name
ApiBlocks ==
  {<<<<1, kGETGLOBAL, kOs>>, <<1, kGETTABLE, kLoadAPI>>, <<1, kLOADK, kPathM>>,
     <<1, kCALL, None>>>>,
   <<<<3, kGETGLOBAL, kBapil>>, <<3, kGETTABLE, kLoadAPI>>, <<3, kLOADK, kPathM>>,
     <<3, kCALL, None>>>>,
   <<<<1, kGETGLOBAL, kOs>>, <<1, kGETTABLE, kTime>>, <<1, kCALL, None>>>>,
   <<<<1, kGETGLOBAL, kOs>>, <<1, kGETTABLE, kLoadAPI>>, <<1, kLOADK, kPathSlash>>,
     <<1, kCALL, None>>>>,
   <<<<2, kGETGLOBAL, kM>>>>,
   <<<<12, kGETGLOBAL, kX>>>>,
   FunctionBlock}

ApiSources == {SrcPlain, SrcTenLines}

\* Lines of the compiler's error text, with the line number and the message
\* each one carries (matches is FALSE for a line of another shape)
ErrorLines ==
  {[text |-> <<"l", "u", "a", "c", ":", " ", "s", "t", "d", "i", "n", ":", "5",
               ":", " ", "b", "a", "d">>,
    matches |-> TRUE, line |-> 5, message |-> <<"b", "a", "d">>],
   [text |-> <<"l", "u", "a", "c", ":", " ", "s", "t", "d", "i", "n", ":", "1",
               "2", ":", " ", "e", "o", "f", "\r">>,
    matches |-> TRUE, line |-> 12, message |-> <<"e", "o", "f">>],
   [text |-> <<"l", "u", "a", "c", ":", " ", "n", "o", " ", "f", "i", "l", "e">>,
    matches |-> FALSE, line |-> 0, message |-> <<>>],
   [text |-> <<"a", ":", "b", ":", "1", ":", " ", "c", ":", "2", ":", " ", "d">>,
    matches |-> TRUE, line |-> 1, message |-> <<"c", ":", "2", ":", " ", "d">>]}

ErrorText(lines) == Flatten([k \in 1..Len(lines) |-> lines[k].text \o <<"\n">>])

ErrorSources == {SrcPlain, SrcIgnoreGetPrint \o SrcCached, SrcTenLines}

ErrorListings == {<<>>, Listing(<<<<<<1, kGETGLOBAL, kX>>>>>>)}

(***************************************************************************)
(* check taken alone: the source is read, the compiler is found.            *)
(***************************************************************************)
InitCheck(src, listing, errors) ==
  /\ pc = "check"
  /\ env = [LUAC51 |-> None, os_name |-> "posix", which |-> <<"l", "u", "a", "c">>,
            executable |-> {<<"l", "u", "a", "c">>}]
  /\ LUAC = <<"l", "u", "a", "c">>
  /\ argv = <<<<"c", "c", "l", "i", "n", "t">>>>
  /\ stdin = src
  /\ file = <<>>
  /\ luac_out = (src :> <<listing, errors>>)
  /\ source = src
  /\ arg = <<>>
  /\ ret = <<>>
  /\ stdout = <<>>
  /\ returned = <<>>
  /\ raised = ""

InitRefs ==
  \E src \in RefSources, blocks \in SeqsUpTo(RefBlocks, MaxRefBlocks) :
    InitCheck(src, Listing(blocks), <<>>)

InitApi ==
  \E src \in ApiSources, blocks \in SeqsUpTo(ApiBlocks, MaxApiBlocks) :
    InitCheck(src, Listing(blocks), <<>>)

InitErrors ==
  \E src \in ErrorSources, listing \in ErrorListings,
     lines \in SeqsUpTo(ErrorLines, MaxErrorLines) \ {<<>>} :
    InitCheck(src, listing, ErrorText(lines))

Init == InitRefs \/ InitApi \/ InitErrors

\* source -> check(source), lines 255 and 171-242
Check ==
  /\ pc = "check"
  /\ ret' = check(source, luac_out[source][1], luac_out[source][2])
  /\ raised' = ret'.raised
  /\ pc' = IF ret'.raised = "" THEN "print" ELSE "raised"
  /\ UNCHANGED <<env, LUAC, argv, stdin, file, luac_out, source, arg, stdout, returned>>

Next == Check

Spec == Init /\ [][Next]_vars

(***************************************************************************)
(* main, lines 245-258, in every environment.                               *)
(***************************************************************************)
kEnvPath == <<"/", "o", "p", "t", "/", "l", "u", "a", "c">>
kWhichPath == <<"/", "b", "i", "n", "/", "l", "u", "a", "c", "5", ".", "1">>
kProg == <<"c", "c", "l", "i", "n", "t">>
kDash == <<"-">>
kFileName == <<"a", ".", "l", "u", "a">>

\* A source that does not compile, and the compiler's error for it
SrcBad == <<"\n", "\n", "\n", "\n", "x", " ", "=">>
kErrBad ==
  <<"l", "u", "a", "c", ":", " ", "s", "t", "d", "i", "n", ":", "5", ":", " ",
    "b", "a", "d", "\n">>

MainSources == {SrcPlain, SrcBad}

\* shutil.which returns the path of a file that is there and executable
Environments ==
  {e \in [LUAC51 : {None, <<>>, kEnvPath}, os_name : {"posix", "nt"},
          which : {None, kWhichPath},
          executable : SUBSET {kEnvPath, kWhichPath, kLocalExe}] :
     (kWhichPath \in e.executable) <=> (e.which = kWhichPath)}

InitMain ==
  /\ pc = "find_luac"
  /\ env \in Environments
  /\ LUAC = None
  /\ argv \in {<<kProg>>, <<kProg, kDash>>, <<kProg, kFileName>>}
  /\ stdin \in MainSources
  /\ file \in MainSources
  /\ luac_out = [s \in MainSources |->
                   IF s = SrcBad THEN <<<<>>, kErrBad>>
                   ELSE <<Listing(<<<<<<1, kGETGLOBAL, kX>>>>>>), <<>>>>]
  /\ source = None
  /\ arg = <<>>
  /\ ret = <<>>
  /\ stdout = <<>>
  /\ returned = <<>>
  /\ raised = ""

\* line 246: find_luac()
FindLuac ==
  /\ pc = "find_luac"
  /\ LUAC' = find_luac(env).LUAC
  /\ raised' = find_luac(env).raised
  /\ pc' = IF find_luac(env).raised # "" THEN "raised"
           ELSE IF find_luac(env).value THEN "read"
           ELSE "setup_error"
  /\ UNCHANGED <<env, argv, stdin, file, luac_out, source, arg, ret, stdout, returned>>

\* lines 247-248
SetupError ==
  /\ pc = "setup_error"
  /\ stdout' = Append(stdout, kNotFound)
  /\ returned' = <<1>>
  /\ pc' = "done"
  /\ UNCHANGED <<env, LUAC, argv, stdin, file, luac_out, source, arg, ret, raised>>

\* lines 250-253
ReadSource ==
  /\ pc = "read"
  /\ source' = IF Len(argv) < 2 \/ argv[2] = kDash THEN stdin ELSE file
  /\ pc' = "check"
  /\ UNCHANGED <<env, LUAC, argv, stdin, file, luac_out, arg, ret, stdout, returned,
                 raised>>

\* lines 255-258
PrintMessages ==
  /\ pc = "print"
  /\ stdout' = stdout \o ret.messages
  /\ returned' = <<0>>
  /\ pc' = "done"
  /\ UNCHANGED <<env, LUAC, argv, stdin, file, luac_out, source, arg, ret, raised>>

NextMain == FindLuac \/ SetupError \/ ReadSource \/ Check \/ PrintMessages

SpecMain == InitMain /\ [][NextMain]_vars

(***************************************************************************)
(* get_apis and parse_bytecode taken alone, on any argument.                *)
(***************************************************************************)
InitAlone(function, argument) ==
  /\ pc = function
  /\ env = [LUAC51 |-> None, os_name |-> "posix", which |-> None, executable |-> {}]
  /\ LUAC = None
  /\ argv = <<>>
  /\ stdin = <<>>
  /\ file = <<>>
  /\ luac_out = <<>>
  /\ source = None
  /\ arg = argument
  /\ ret = <<>>
  /\ stdout = <<>>
  /\ returned = <<>>
  /\ raised = ""

Instructions ==
  {<<kMain, 1, kGETGLOBAL, kOs>>, <<kMain, 1, kGETTABLE, kLoadAPI>>,
   <<kMain, 1, kLOADK, kPathM>>, <<kMain, 1, kLOADK, <<"7">>>>,
   <<kMain, 1, kCALL, None>>, <<kMain, 2, kGETGLOBAL, kX>>}

InitGetApis ==
  \E instructions \in SeqsUpTo(Instructions, MaxInstructions) :
    InitAlone("get_apis", instructions)

GetApis ==
  /\ pc = "get_apis"
  /\ ret' = get_apis(arg)
  /\ raised' = ret'.raised
  /\ pc' = IF ret'.raised = "" THEN "returned" ELSE "raised"
  /\ UNCHANGED <<env, LUAC, argv, stdin, file, luac_out, source, arg, stdout, returned>>

SpecGetApis == InitGetApis /\ [][GetApis]_vars

ListingLines ==
  {kMainHeader, kFunctionHeader, kCounts,
   InstructionLine(1, 1, kGETGLOBAL, kX),
   InstructionLine(2, 3, kSETGLOBAL, kX) \o <<"\r">>,
   InstructionLine(3, 3, kRETURN, None)}

InitParse ==
  \E lines \in SeqsUpTo(ListingLines, MaxListingLines) :
    InitAlone("parse_bytecode", join(<<"\n">>, lines))

ParseBytecode ==
  /\ pc = "parse_bytecode"
  /\ ret' = parse_bytecode(arg)
  /\ pc' = "returned"
  /\ UNCHANGED <<env, LUAC, argv, stdin, file, luac_out, source, arg, stdout, returned,
                 raised>>

SpecParse == InitParse /\ [][ParseBytecode]_vars

(***************************************************************************)
(* The properties.  The ones about check are stated on the states where    *)
(* check has returned (pc = "print"); ret holds its messages and the       *)
(* locals of the run.                                                      *)
(***************************************************************************)
errors_of_run == luac_out[source][2]

listing_of_run == luac_out[source][1]

Analysed == pc = "print" /\ errors_of_run = <<>>

Occurrences(seq, t) == Cardinality({k \in DOMAIN seq : seq[k] = t})

Blanks(n) == [k \in 1..n |-> " "]

\* the warning <<line, action, name>> of a reference <<action, line, name, chunk>>
RefTuple(ref) == <<ref[2], ref[1], ref[3]>>

RefTuples == [k \in DOMAIN ret.locals.global_refs |-> RefTuple(ret.locals.global_refs[k])]

Warned(ref) == In(RefTuple(ref), ret.locals.warnings)

\* the lines of the compiler's error text, as the pool of error lines gives them
ErrorLinesOfRun ==
  CHOOSE lines \in SeqsUpTo(ErrorLines, MaxErrorLines) : ErrorText(lines) = errors_of_run

MatchingErrorLines == SelectSeq(ErrorLinesOfRun, LAMBDA e : e.matches)

IsErrorDiagnostic(msg, line, message) ==
  \E pad \in 0..Len(msg) :
    msg = <<"E", ":">> \o Blanks(pad) \o str(line) \o <<":", " ">> \o message

\* C1: when the compiler writes anything to its error stream, check returns
\* exactly one E diagnostic per error line of the shape
\* "<anything>:<anything>:<digits>: <message>", in the order of the lines,
\* carrying the line number and the message of that line, and no warning,
\* whatever the listing and the directives are.
C1_ErrorsShortCircuit ==
  (pc = "print" /\ errors_of_run # <<>>) =>
    /\ \E lines \in SeqsUpTo(ErrorLines, MaxErrorLines) :
         ErrorText(lines) = errors_of_run
    /\ Len(ret.messages) = Len(MatchingErrorLines)
    /\ \A k \in 1..Len(MatchingErrorLines) :
         IsErrorDiagnostic(ret.messages[k], MatchingErrorLines[k].line,
                           MatchingErrorLines[k].message)

\* an error text of one matching and one other line, with a listing that
\* reads an undeclared global and a source that holds directives
C1_Witness ==
  /\ pc = "print"
  /\ errors_of_run # <<>>
  /\ Len(ErrorLinesOfRun) = 2
  /\ Len(MatchingErrorLines) = 1
  /\ listing_of_run # <<>>
  /\ Contains(source, kCheckGlobalsCached)
  /\ Len(ret.messages) = 1

\* the messages are the W diagnostics of the sorted warnings, one for one
MessagesFollowWarnings ==
  /\ Len(ret.messages) = Len(ret.locals.warnings)
  /\ \A k \in 1..Len(ret.messages) :
       /\ StartsWith(ret.messages[k], <<"W", ":">>)
       /\ LET text == <<":", " ">> \o warning_text(ret.locals.warnings[k][2],
                                                  ret.locals.warnings[k][3])
          IN  /\ Len(ret.messages[k]) > Len(text)
              /\ SubSeq(ret.messages[k], Len(ret.messages[k]) - Len(text) + 1,
                        Len(ret.messages[k])) = text

OnLine(seq, l) == SelectSeq(seq, LAMBDA w : w[1] = l)

\* C2, as the specification states it: the warnings come out in ascending
\* order of their line, and the warnings of one line keep the order in which
\* their references were traversed.
C2_StableByLine ==
  Analysed =>
    /\ MessagesFollowWarnings
    /\ Len(ret.locals.warnings) = Len(ret.locals.emitted)
    /\ \A k \in 1..(Len(ret.locals.warnings) - 1) :
         ret.locals.warnings[k][1] <= ret.locals.warnings[k + 1][1]
    /\ \A k \in DOMAIN ret.locals.emitted :
         OnLine(ret.locals.warnings, ret.locals.emitted[k][1])
           = OnLine(ret.locals.emitted, ret.locals.emitted[k][1])

InOrder(u, v) ==
  \/ u[1] < v[1]
  \/ u[1] = v[1] /\ u[2] = kGet /\ v[2] = kSet
  \/ u[1] = v[1] /\ u[2] = v[2] /\ (u[3] = v[3] \/ str_less(u[3], v[3]))

\* C2, amended: the warnings come out in ascending order of their line; the
\* warnings of one line come out reads before writes, and within one kind in
\* the code point order of their names; every emitted warning comes out as
\* often as it was emitted.
C2_SortedByLineActionName ==
  Analysed =>
    /\ MessagesFollowWarnings
    /\ Len(ret.locals.warnings) = Len(ret.locals.emitted)
    /\ \A k \in DOMAIN ret.locals.emitted :
         Occurrences(ret.locals.warnings, ret.locals.emitted[k])
           = Occurrences(ret.locals.emitted, ret.locals.emitted[k])
    /\ \A k \in 1..(Len(ret.locals.warnings) - 1) :
         InOrder(ret.locals.warnings[k], ret.locals.warnings[k + 1])

\* a write and a later read of one undeclared name on one line: the read
\* comes out first
C2_Witness ==
  /\ Analysed
  /\ ret.locals.emitted = <<<<1, kSet, kX>>, <<1, kGet, kX>>>>
  /\ ret.locals.warnings = <<<<1, kGet, kX>>, <<1, kSet, kX>>>>
  /\ Len(ret.messages) = 2

Registry == lua51_builtins \o cc_builtins

\* C3, as the specification states it: a read, inside a function chunk, of a
\* name of the built-in or host registry warns always when the source holds
\* lint-check-globals-cached and never when it does not.
C3_CachedReadWarnsAlways ==
  Analysed =>
    \A k \in DOMAIN ret.locals.global_refs :
      LET ref == ret.locals.global_refs[k]
      IN  (ref[1] = kGet /\ ref[4] = kFunction /\ In(ref[3], Registry)) =>
            (Warned(ref) <=> Contains(source, kCheckGlobalsCached))

\* C3, amended: such a read warns, when the source holds
\* lint-check-globals-cached, exactly when no directive and no main-chunk
\* write put the name on the list of ignored reads, as often as it occurs;
\* it never warns when the source does not hold the marker.
C3_CachedReadWarnsUnlessIgnored ==
  Analysed =>
    \A k \in DOMAIN ret.locals.global_refs :
      LET ref == ret.locals.global_refs[k]
      IN  (ref[1] = kGet /\ ref[4] = kFunction /\ In(ref[3], Registry)) =>
            Occurrences(ret.locals.warnings, RefTuple(ref))
              = IF /\ Contains(source, kCheckGlobalsCached)
                   /\ ~In(ref[3], ret.locals.ignore_global_get)
                THEN Occurrences(ret.locals.global_refs, ref)
                ELSE 0

\* a function chunk reads print and fs under the marker, and the read of fs
\* warns
C3_Witness ==
  /\ Analysed
  /\ Contains(source, kCheckGlobalsCached)
  /\ \E k \in DOMAIN ret.locals.global_refs :
       ret.locals.global_refs[k] = <<kGet, 2, kFs, kFunction>>
  /\ In(<<2, kGet, kFs>>, ret.locals.warnings)

\* C4: a write of a global warns exactly when its name is not "_" and is not
\* on the list of ignored writes; the registries, the chunk and
\* lint-check-globals-cached do not change that.
C4_SetWarnsIff ==
  Analysed =>
    \A k \in DOMAIN ret.locals.global_refs :
      LET ref == ret.locals.global_refs[k]
      IN  ref[1] = kSet =>
            Occurrences(ret.locals.warnings, RefTuple(ref))
              = IF ref[3] # kUnderscore /\ ~In(ref[3], ret.locals.ignore_global_set)
                THEN Occurrences(RefTuples, RefTuple(ref))
                ELSE 0

\* a write of the built-in print warns, a write of "_" in the same run does
\* not
C4_Witness ==
  /\ Analysed
  /\ In(<<2, kSet, kPrint>>, ret.locals.warnings)
  /\ \E k \in DOMAIN ret.locals.global_refs :
       ret.locals.global_refs[k][1] = kSet /\ ret.locals.global_refs[k][3] = kUnderscore
  /\ \A k \in DOMAIN ret.locals.warnings : ret.locals.warnings[k][3] # kUnderscore

NoDirectives(src) == ~Contains(src, <<"l", "i", "n", "t", "-">>)

\* info is a quoted path whose last segment is m
QuotedPathEndingIn(info, m) ==
  /\ info # None
  /\ Len(m) >= 1
  /\ \A k \in DOMAIN m : m[k] # "/"
  /\ Len(info) >= Len(m) + 2
  /\ info[1] = "\""
  /\ SubSeq(info, Len(info) - Len(m), Len(info)) = m \o <<"\"">>
  /\ Len(info) = Len(m) + 2 \/ info[Len(info) - Len(m) - 1] = "/"

\* the module load idiom for m starts at instruction i
IdiomAt(ins, i, m) ==
  /\ i + 3 <= Len(ins)
  /\ ins[i][3] = kGETGLOBAL /\ ins[i][4] \in {kOs, kBapil}
  /\ ins[i + 1][3] = kGETTABLE /\ ins[i + 1][4] = kLoadAPI
  /\ ins[i + 2][3] = kLOADK /\ QuotedPathEndingIn(ins[i + 2][4], m)
  /\ ins[i + 3][3] = kCALL

\* C5: in a source without directives that compiles, the idiom
\* os.loadAPI("<path>/m") or bapil.loadAPI("<path>/m") declares m, so no read
\* of m warns; a read of a name that is in neither registry and was not
\* loaded that way still warns, once per read, at its line.
C5_LoadedModuleDeclared ==
  (Analysed /\ NoDirectives(source)) =>
    \A k \in DOMAIN ret.locals.global_refs :
      LET ref == ret.locals.global_refs[k]
      IN  ref[1] = kGet =>
            /\ (\E i \in DOMAIN ret.locals.instructions :
                  IdiomAt(ret.locals.instructions, i, ref[3]))
                 => Occurrences(ret.locals.warnings, RefTuple(ref)) = 0
            /\ (~In(ref[3], Registry) /\ ~In(ref[3], ret.locals.apis))
                 => Occurrences(ret.locals.warnings, RefTuple(ref))
                      = Occurrences(RefTuples, RefTuple(ref))

\* the source loads rom/apis/m, then a read of m stays silent and a read of
\* x warns
C5_Witness ==
  /\ Analysed
  /\ NoDirectives(source)
  /\ \E i \in DOMAIN ret.locals.instructions : IdiomAt(ret.locals.instructions, i, kM)
  /\ \E k \in DOMAIN ret.locals.global_refs :
       ret.locals.global_refs[k][1] = kGet /\ ret.locals.global_refs[k][3] = kM
  /\ ret.locals.warnings = <<<<12, kGet, kX>>>>

WrittenInMain(name) ==
  \E j \in DOMAIN ret.locals.global_refs :
    /\ ret.locals.global_refs[j][1] = kSet
    /\ ret.locals.global_refs[j][3] = name
    /\ ret.locals.global_refs[j][4] = kMain

\* C7, as the specification states it: under lint-set-globals-in-main-chunk a
\* name the main chunk writes is ignored for reads and for writes, so no
\* reference to it warns in any chunk; a name written only in function chunks
\* is not added, and its writes still warn.
C7_FunctionOnlyWritesWarn ==
  (Analysed /\ Contains(source, kSetGlobalsInMain)) =>
    \A k \in DOMAIN ret.locals.global_refs :
      LET ref == ret.locals.global_refs[k]
      IN  ref[1] = kSet =>
            IF WrittenInMain(ref[3])
            THEN /\ In(ref[3], ret.locals.ignore_global_get)
                 /\ In(ref[3], ret.locals.ignore_global_set)
                 /\ \A j \in DOMAIN ret.locals.global_refs :
                      ret.locals.global_refs[j][3] = ref[3]
                        => ~Warned(ret.locals.global_refs[j])
            ELSE Warned(ref)

\* C7, amended: a name written only in function chunks is not added to the
\* lists, which then hold it only if a directive names it, and its writes
\* warn unless the name is "_" or a directive ignores its writes.
C7_FunctionOnlyWritesWarnUnlessIgnored ==
  (Analysed /\ Contains(source, kSetGlobalsInMain)) =>
    \A k \in DOMAIN ret.locals.global_refs :
      LET ref == ret.locals.global_refs[k]
      IN  ref[1] = kSet =>
            IF WrittenInMain(ref[3])
            THEN /\ In(ref[3], ret.locals.ignore_global_get)
                 /\ In(ref[3], ret.locals.ignore_global_set)
                 /\ \A j \in DOMAIN ret.locals.global_refs :
                      ret.locals.global_refs[j][3] = ref[3]
                        => ~Warned(ret.locals.global_refs[j])
            ELSE /\ In(ref[3], ret.locals.ignore_global_get)
                      <=> In(ref[3], get_directives(source).ignore_global_get)
                 /\ In(ref[3], ret.locals.ignore_global_set)
                      <=> In(ref[3], get_directives(source).ignore_global_set)
                 /\ Warned(ref)
                      <=> /\ ref[3] # kUnderscore
                          /\ ~In(ref[3], get_directives(source).ignore_global_set)

\* the main chunk writes print, a function chunk writes x: no reference to
\* print warns, the write of x does
C7_Witness ==
  /\ Analysed
  /\ Contains(source, kSetGlobalsInMain)
  /\ ret.locals.global_refs = <<<<kSet, 2, kPrint, kMain>>, <<kSet, 1, kX, kFunction>>>>
  /\ ret.locals.warnings = <<<<1, kSet, kX>>>>

NumDigits(n) == Len(str(n))

Width == NumDigits(count(source, "\n"))

\* the line numbers of the diagnostics, in the order of the messages
DiagnosticLines ==
  IF errors_of_run # <<>>
  THEN [k \in DOMAIN MatchingErrorLines |-> MatchingErrorLines[k].line]
  ELSE [k \in DOMAIN ret.locals.warnings |-> ret.locals.warnings[k][1]]

\* what stands between the first and the second colon of a message
LineField(msg) == SubSeq(msg, 3, Find(msg, 3, ":") - 1)

MaxOf(a, b) == IF a >= b THEN a ELSE b

\* C8, as the specification states it: every message is "<T>:<line>: <text>"
\* with T one of E and W, and one run formats all its line numbers as
\* zero-padded decimal fields of one width, the number of digits of the
\* count of newlines in the source.
C8_ZeroPaddedEqualWidth ==
  pc = "print" =>
    /\ Len(ret.messages) = Len(DiagnosticLines)
    /\ \A k \in DOMAIN ret.messages :
         /\ ret.messages[k][1] \in {"E", "W"}
         /\ ret.messages[k][2] = ":"
         /\ Len(LineField(ret.messages[k])) = Width
         /\ \A j \in DOMAIN LineField(ret.messages[k]) :
              LineField(ret.messages[k])[j] \in Digit
         /\ int(LineField(ret.messages[k])) = DiagnosticLines[k]
         /\ StartsAt(ret.messages[k], 3 + Width, <<":", " ">>)

\* C8, amended: the line number is written in decimal and right-justified
\* with blanks to that width; a number of more digits than the width is
\* written in full, so the fields of one run may differ in width.
C8_BlankPaddedMinimumWidth ==
  pc = "print" =>
    /\ Len(ret.messages) = Len(DiagnosticLines)
    /\ \A k \in DOMAIN ret.messages :
         /\ ret.messages[k][1] \in {"E", "W"}
         /\ ret.messages[k][2] = ":"
         /\ LineField(ret.messages[k])
              = Blanks(MaxOf(0, Width - NumDigits(DiagnosticLines[k])))
                  \o str(DiagnosticLines[k])
         /\ StartsAt(ret.messages[k], 3 + Len(LineField(ret.messages[k])),
                     <<":", " ">>)

\* a source of ten lines: the warning of line 1 is padded with a blank, the
\* one of line 12 is not
C8_Witness ==
  /\ pc = "print"
  /\ Width = 2
  /\ \E k \in DOMAIN ret.messages : LineField(ret.messages[k]) = <<" ", "1">>
  /\ \E k \in DOMAIN ret.messages : LineField(ret.messages[k]) = <<"1", "2">>

\* the path find_luac settles on, and whether it may be executed
CompilerPath(e) ==
  IF e.LUAC51 # None /\ e.LUAC51 # <<>> THEN e.LUAC51
  ELSE IF e.os_name = "nt" /\ kLocalExe \in e.executable THEN kLocalExe
  ELSE e.which

Locatable(e) == CompilerPath(e) # None /\ CompilerPath(e) \in e.executable

\* C6: main ends with status 0 whenever the compiler is found, and in every
\* environment where it is not (LUAC51 set or unset, a hit on PATH or none)
\* main prints "error: luac5.1 not found", ends with status 1, and neither
\* reads the source nor starts the compiler.
C6_SetupErrorWhenNotLocatable ==
  /\ ~Locatable(env) => source = None /\ pc \notin {"read", "check", "print"}
  /\ pc \in {"done", "raised"} =>
       IF Locatable(env)
       THEN returned = <<0>> /\ source # None
       ELSE stdout = <<kNotFound>> /\ returned = <<1>>

\* the scan as the specification describes it: a window cut short by the end
\* of the list does not match
LastSegments(info) == {SubSeq(info, j, Len(info) - 1) : j \in 2..(Len(info) - 1)}

RECURSIVE ScanApis(_, _)
ScanApis(ins, i) ==
  IF i > Len(ins) THEN <<>>
  ELSE IF i + 3 <= Len(ins) /\ \E m \in LastSegments(ins[i + 2][4]) : IdiomAt(ins, i, m)
  THEN <<CHOOSE m \in LastSegments(ins[i + 2][4]) : IdiomAt(ins, i, m)>>
         \o ScanApis(ins, i + 4)
  ELSE ScanApis(ins, i + 1)

\* C9: get_apis ends without an error on every finite list of instructions
\* and returns the modules of the full four-instruction matches, a window
\* that the end of the list cuts short counting as no match.
C9_GetApisTotal ==
  pc \in {"returned", "raised"} =>
    /\ raised = ""
    /\ ret.value = ScanApis(arg, 1)

\* the parse as the specification describes it: lines before the first
\* header are skipped
RECURSIVE ParseAfterHeader(_, _, _)
ParseAfterHeader(lines, k, chunk) ==
  IF k > Len(lines) THEN <<>>
  ELSE LET line == rstrip(lines[k], {"\r"})
       IN  IF StartsWith(line, <<"m", "a", "i", "n", " ", "<">>)
           THEN ParseAfterHeader(lines, k + 1, kMain)
           ELSE IF StartsWith(line, <<"f", "u", "n", "c", "t", "i", "o", "n", " ", "<">>)
           THEN ParseAfterHeader(lines, k + 1, kFunction)
           ELSE IF instruction_regex(line) = <<>> \/ chunk = None
           THEN ParseAfterHeader(lines, k + 1, chunk)
           ELSE <<<<chunk, int(instruction_regex(line)[1].line),
                    instruction_regex(line)[1].name,
                    instruction_regex(line)[1].info>>>>
                  \o ParseAfterHeader(lines, k + 1, chunk)

\* C10: every record parse_bytecode returns has chunk_kind Main or Function,
\* the kind of the latest header above its line; a line before the first
\* header yields no record.
C10_ChunkKindMainOrFunction ==
  pc = "returned" =>
    /\ \A k \in DOMAIN ret : ret[k][1] \in {kMain, kFunction}
    /\ ret = ParseAfterHeader(split(arg, "\n"), 1, None)

=============================================================================
